---- MODULE Spec2Model ----
(***************************************************************************)
(* Model of pathcomp.c: a singly linked chain of bitmask nodes into which  *)
(* insert_path() inserts sequences of element identifiers, and which       *)
(* free_path() releases.                                                   *)
(*                                                                         *)
(* A node address is its index in `heap` (addresses are handed out in      *)
(* creation order, the root is address 1, NULL is 0).  The 64-bit          *)
(* letters_table is the set of its set bit positions, a subset of 0..63.   *)
(***************************************************************************)
EXTENDS Integers, Sequences, FiniteSets, TLC

VARIABLES
    heap,      \* the struct node objects allocated so far, by address
    status,    \* "running", "exit1" (exit(1) after calloc failed), "segv"
               \* (insert_path went through a null pointer), "freed"
    freed,     \* the addresses free_path passed to free(), in order
    shiftEnd,  \* what this build makes of the undefined 1ULL << LLA (line 87)
    shiftPos,  \* what this build makes of 1ULL << pos for pos >= 64 (line 69)
    call,      \* the latest insert_path call: arguments, the node i it ended
               \* on, the node whose bit was set last, how it ended
    work       \* calls made so far plus identifiers passed in them

vars == <<heap, status, freed, shiftEnd, shiftPos, call, work>>

(* ------------------------------ bounds --------------------------------- *)
\* total work of a run: every insert_path call counts 1 plus the length of
\* its path
MaxWork == 6

(* ------------------------- program constants --------------------------- *)
LLA == 64
NULL == 0
root == 1
WordBits == 64

\* identifiers used in paths: valid ones and one outside [0, LLA)
Ids == {0, 1, 2, 64}
Weights == {10, 25}

RECURSIVE SeqsUpTo(_)
SeqsUpTo(n) ==
    IF n = 0 THEN {<<>>}
    ELSE LET shorter == SeqsUpTo(n - 1)
         IN  shorter \cup {Append(s, x) : s \in {t \in shorter : Len(t) = n - 1}, x \in Ids}

\* the paths a run with `left` work left can still insert
PathsWithin(left) == IF left < 1 THEN {} ELSE SeqsUpTo(left - 1)

\* what a shift by a count >= the width (undefined behaviour) can evaluate to:
\* 0, or the shift by the count modulo the width
ShiftOutcomes == {"zero", "wrap"}

(* ------------------------------ the code ------------------------------- *)
\* calloc(1, sizeof(struct node))
ZeroNode == [letters_table |-> {}, next |-> NULL, weight |-> 0]

\* 1ULL << pos, as a set of bit positions
Shl(pos, outcome) ==
    IF pos \in 0..(WordBits - 1) THEN {pos}
    ELSE IF outcome = "wrap" THEN {pos % WordBits} ELSE {}

\* the value of the constant expression (1ULL << LLA)
EndMask == Shl(LLA, shiftEnd)

\* letters_table & (1ULL << LLA), as read by the tests in main
IsTerminal(nd) == (nd.letters_table \cap EndMask) # {}

count_uper_bits(h, i, pos) ==
    Cardinality({j \in (pos + 1)..(LLA - 1) : j \in h[i].letters_table})

\* a variant that assigns the bit instead of or-ing it in
SetBit_assign(h, i, pos) ==
    [h EXCEPT ![i].letters_table = Shl(pos, shiftPos)]

\* i->letters_table |= (1ULL << pos)
SetBit(h, i, pos) ==
    [h EXCEPT ![i].letters_table = @ \cup Shl(pos, shiftPos)]

\* for (j = n; j > 0; j--) i = i->next;  NULL once the chain is exhausted
RECURSIVE Advance(_, _, _)
Advance(h, i, n) ==
    IF n = 0 \/ i = NULL THEN i ELSE Advance(h, h[i].next, n - 1)

\* a variant that forgets to hand the old successor to the new node
Splice_drop_temp(h, i) ==
    Append([h EXCEPT ![i].next = Len(h) + 1], ZeroNode)

\* temp = i->next; i->next = new_node; i = i->next; i->next = temp
Splice(h, i) ==
    LET new_node == Len(h) + 1
        temp == h[i].next
    IN  Append([h EXCEPT ![i].next = new_node], [ZeroNode EXCEPT !.next = temp])

\* the for loop of insert_path from index k on, standing on node i;
\* bitnode is the node on which the last identifier's bit was set
\* avail is the number of nodes calloc still provides before it returns NULL
RECURSIVE InsertLoop(_, _, _, _, _, _)
InsertLoop(h, i, path, k, bitnode, avail) ==
    IF k > Len(path)
    THEN [heap |-> h, i |-> i, outcome |-> "returned", bitnode |-> bitnode]
    ELSE LET pos == path[k]
             h1 == SetBit(h, i, pos)
             n == count_uper_bits(h1, i, pos)
         IN  IF n > 0
             THEN LET j == Advance(h1, i, n)
                  IN  IF j = NULL
                      THEN \* the next access through i dereferences NULL
                           [heap |-> h1, i |-> NULL, outcome |-> "segv", bitnode |-> i]
                      ELSE InsertLoop(h1, j, path, k + 1, i, avail)
             ELSE IF avail = 0
                  THEN \* calloc returned NULL: exit(1)
                       [heap |-> h1, i |-> i, outcome |-> "exit1", bitnode |-> i]
                  ELSE InsertLoop(Splice(h1, i), Len(h1) + 1, path, k + 1, i, avail - 1)

\* i->letters_table |= (1ULL << LLA); i->weight = weight
MarkEnd(h, i, weight) ==
    [h EXCEPT ![i].letters_table = @ \cup EndMask, ![i].weight = weight]

\* marked: the bits of the end node that the end marking newly set
insert_path(h, path, weight, avail) ==
    LET r == InsertLoop(h, root, path, 1, NULL, avail)
    IN  IF r.outcome = "returned"
        THEN [heap |-> MarkEnd(r.heap, r.i, weight), i |-> r.i, outcome |-> r.outcome,
              bitnode |-> r.bitnode,
              marked |-> EndMask \ r.heap[r.i].letters_table]
        ELSE [heap |-> r.heap, i |-> r.i, outcome |-> r.outcome,
              bitnode |-> r.bitnode, marked |-> {}]

\* the while loop of free_path: the nodes freed, in order
RECURSIVE FreeWalk(_, _, _)
FreeWalk(h, current, fuel) ==
    IF current = NULL \/ fuel = 0 THEN <<>>
    ELSE <<current>> \o FreeWalk(h, h[current].next, fuel - 1)

\* a variant that starts behind the root
free_path_skip_root(h) == FreeWalk(h, h[root].next, Len(h) + 1)

\* fuel: one more than the number of nodes, so that a walk which does not
\* end on NULL shows as a walk longer than the heap
free_path(h) == FreeWalk(h, root, Len(h) + 1)

(* ---------------------------- state machine ---------------------------- *)
NoCall == [op |-> "none"]

Init ==
    /\ heap = <<ZeroNode>>
    /\ status = "running"
    /\ freed = <<>>
    /\ shiftEnd \in ShiftOutcomes
    /\ shiftPos \in ShiftOutcomes
    /\ call = NoCall
    /\ work = 0

StatusAfter(outcome) == IF outcome = "returned" THEN "running" ELSE outcome

InsertPath ==
    /\ status = "running"
    /\ \E path \in PathsWithin(MaxWork - work), weight \in Weights :
        \E avail \in 0..Len(path) :
          LET r == insert_path(heap, path, weight, avail)
          IN  /\ heap' = r.heap
              /\ work' = work + 1 + Len(path)
              /\ status' = StatusAfter(r.outcome)
              /\ call' = [op |-> "insert_path", path |-> path, weight |-> weight,
                          i |-> r.i, bitnode |-> r.bitnode, outcome |-> r.outcome,
                          marked |-> r.marked]
    /\ UNCHANGED <<freed, shiftEnd, shiftPos>>

FreePath ==
    /\ status = "running"
    /\ freed' = free_path(heap)
    /\ status' = "freed"
    /\ UNCHANGED <<heap, shiftEnd, shiftPos, call, work>>

Next == InsertPath \/ FreePath

Spec == Init /\ [][Next]_vars

TypeOK ==
    /\ status \in {"running", "segv", "exit1", "freed"}
    /\ work \in 0..MaxWork
    /\ Len(heap) \in 1..(MaxWork + 1)
    /\ \A n \in 1..Len(heap) :
          /\ heap[n].letters_table \subseteq 0..(WordBits - 1)
          /\ heap[n].next \in 0..Len(heap)
          /\ heap[n].weight \in Weights \cup {0}

(* ------------------------- vocabulary of the claims -------------------- *)
\* the chain from the root, as the sequence of node addresses
Chain(h) == FreeWalk(h, root, Len(h) + 1)

Range(s) == {s[k] : k \in 1..Len(s)}

\* a non-empty path of identifiers in [0, LLA)
ValidPath(p) == p # <<>> /\ \A k \in 1..Len(p) : p[k] \in 0..(LLA - 1)

\* the most recent insert_path call, and whether it returned
Called == call.op = "insert_path"
Returned == Called /\ call.outcome = "returned"

\* a step that is a call of insert_path
InsertStep == status = "running" /\ status' # "freed" /\ call'.op = "insert_path"

\* the step is a call of insert_path that returns, right after one that returned
ConsecutiveReturns == InsertStep /\ Returned /\ call'.outcome = "returned"

RECURSIVE CommonPrefixLen(_, _)
CommonPrefixLen(p, q) ==
    IF p = <<>> \/ q = <<>> \/ Head(p) # Head(q) THEN 0
    ELSE 1 + CommonPrefixLen(Tail(p), Tail(q))

\* the addresses Len(h)+1 .. Len(h2), in creation order
NewNodes(h, h2) == [k \in 1..(Len(h2) - Len(h)) |-> Len(h) + k]

(* -------------------------------- claims ------------------------------- *)
\* C1: after insert_path of a valid path returns, the terminal marker and the
\* weight are on the node on which the bit of the path's last identifier was
\* set; in particular after inserting [0,1] with weight 10 into a fresh trie,
\* root has bit 0 and root->next has bit 1, is terminal and has weight 10.
C1_TerminalOnLastIdNode ==
    (Returned /\ ValidPath(call.path)) =>
        /\ call.i = call.bitnode
        /\ IsTerminal(heap[call.bitnode])
        /\ heap[call.bitnode].weight = call.weight
        /\ (work = 3 /\ call.path = <<0, 1>> /\ call.weight = 10) =>
              /\ 0 \in heap[root].letters_table
              /\ heap[root].next # NULL
              /\ 1 \in heap[heap[root].next].letters_table
              /\ IsTerminal(heap[heap[root].next])
              /\ heap[heap[root].next].weight = 10

\* C2: a call inserting a path that shares a prefix of length p with the path
\* inserted by the previous call allocates no node for those p identifiers
\* (so re-inserting the same path allocates no node at all).
C2_PrefixReuse ==
    [][(ConsecutiveReturns /\ ValidPath(call.path) /\ ValidPath(call'.path)) =>
          Len(heap') - Len(heap)
              <= Len(call'.path) - CommonPrefixLen(call.path, call'.path)]_vars

\* C3: a bit that is set in a node's letters_table stays set in that node in
\* every later state, and after a call of insert_path the root has the bit of
\* the path's first identifier in addition to all bits it had before.
C3_MembershipMonotone ==
    [][/\ \A n \in 1..Len(heap) :
             n <= Len(heap') /\ heap[n].letters_table \subseteq heap'[n].letters_table
       /\ (InsertStep /\ call'.path # <<>> /\ call'.path[1] \in 0..(LLA - 1)) =>
             ({call'.path[1]} \cup heap[root].letters_table)
                 \subseteq heap'[root].letters_table]_vars

\* C3 witness: [1,2] was inserted into a trie whose root already had bit 0
\* from an earlier path, and the root has bits 0 and 1.
C3_Witness ==
    /\ Returned /\ call.path = <<1, 2>>
    /\ shiftEnd = "zero" /\ shiftPos = "zero"
    /\ 0 \in heap[root].letters_table /\ 1 \in heap[root].letters_table

\* C4: inserting the same path a second time leaves every membership bitmask
\* of the trie unchanged and overwrites the weight at the path's terminal node.
C4_IdempotentMembership ==
    [][(ConsecutiveReturns /\ ValidPath(call.path) /\ call'.path = call.path) =>
          /\ Len(heap') = Len(heap)
          /\ \A n \in 1..Len(heap) :
                heap'[n].letters_table \cap (0..(LLA - 1))
                    = heap[n].letters_table \cap (0..(LLA - 1))
          /\ call'.i = call.i
          /\ heap'[call.i].weight = call'.weight]_vars

\* C5: every allocated node is on the chain from the root exactly once (the
\* chain is finite and acyclic), and free_path ends having freed every
\* allocated node, root included, exactly once.
C5_FreeReleasesAll ==
    /\ Len(Chain(heap)) = Len(heap)
    /\ Range(Chain(heap)) = 1..Len(heap)
    /\ status = "freed" =>
          /\ Len(freed) = Len(heap)
          /\ Range(freed) = 1..Len(heap)
          /\ freed[1] = root

\* C5 witness: free_path has run on a trie in which a later path was spliced
\* in front of the nodes of an earlier one.
C5_Witness ==
    /\ status = "freed"
    /\ Len(freed) >= 4
    /\ \E k \in 1..(Len(freed) - 1) : freed[k] > freed[k + 1]

\* C6: marking the end node makes it read as terminal and sets none of the
\* membership bits 0..63, and a node reads as terminal after a call only if
\* it did before or the call ended on it.
C6_MarkerDistinct ==
    [][(InsertStep /\ call'.outcome = "returned" /\ ValidPath(call'.path)) =>
          /\ IsTerminal(heap'[call'.i])
          /\ call'.marked \cap (0..(LLA - 1)) = {}
          /\ \A n \in 1..Len(heap') :
                (n # call'.i /\ (n > Len(heap) \/ ~IsTerminal(heap[n])))
                    => ~IsTerminal(heap'[n])]_vars

\* C7: two different identifiers inserted one after the other as
\* single-identifier paths end on two distinct chain nodes, and when the
\* higher-valued identifier is inserted first it is on the earlier-created one.
C7_SiblingsDistinct ==
    [][(/\ ConsecutiveReturns
        /\ ValidPath(call.path) /\ ValidPath(call'.path)
        /\ Len(call.path) = 1 /\ Len(call'.path) = 1
        /\ call.path[1] # call'.path[1]) =>
          /\ call'.i # call.i
          /\ (call.path[1] > call'.path[1]) => (call.i < call'.i)]_vars

\* C8: a call with an identifier outside [0, 64) fails with OutOfRange, a call
\* with the empty path fails with InvalidInput, and neither modifies a node.
C8_RejectsInvalid ==
    [][(InsertStep /\ ~ValidPath(call'.path)) =>
          /\ heap' = heap
          /\ call'.outcome
                = (IF call'.path = <<>> THEN "InvalidInput" ELSE "OutOfRange")]_vars

\* C9: insert_path never advances onto or dereferences a null link.
C9_NoNullDereference == status # "segv"

\* C10: insert_path only adds to the chain: no node is removed, the root stays
\* the head, the nodes already in the chain keep their order, the new nodes
\* are spliced in after a node of the chain, every node other than the end
\* node keeps its weight (a new node has weight 0), and a call that returns
\* has written its weight on the end node.
C10_OnlyAdds ==
    [][InsertStep =>
          LET old == Chain(heap)
              new == Chain(heap')
          IN  /\ Len(heap') >= Len(heap)
              /\ new[1] = root
              /\ \E k \in 1..Len(old) :
                    new = SubSeq(old, 1, k) \o NewNodes(heap, heap')
                              \o SubSeq(old, k + 1, Len(old))
              /\ \A n \in 1..Len(heap') :
                    n # call'.i =>
                        heap'[n].weight = (IF n <= Len(heap) THEN heap[n].weight ELSE 0)
              /\ call'.outcome = "returned" =>
                    /\ call'.i \in 1..Len(heap')
                    /\ heap'[call'.i].weight = call'.weight]_vars

\* C10 witness: a call spliced new nodes between the root and nodes of an
\* earlier path, one of which still carries the earlier weight.
C10_Witness ==
    /\ Returned /\ status = "running"
    /\ Len(heap) >= 4
    /\ \E k \in 1..(Len(heap) - 1) : Chain(heap)[k] > Chain(heap)[k + 1]
    /\ \E n \in 1..Len(heap) : n # call.i /\ heap[n].weight \notin {0, call.weight}
====
